---- MODULE Spec2Model ----
(***************************************************************************)
(* splitIntoSentences of scripts/auto-setup-on-deploy.js as a state        *)
(* machine.  A text is a sequence of UTF-16 code units (all modelled       *)
(* characters lie in the Basic Multilingual Plane, so one unit is one      *)
(* character).  One action per phase of the function: the two replace()    *)
(* calls, one iteration of the for loop, and the flush + map/filter that   *)
(* builds the returned list.                                               *)
(***************************************************************************)
EXTENDS Integers, Sequences, FiniteSets, TLC

(* ------------------------------------------------------------------ *)
(* Code points                                                          *)
(* ------------------------------------------------------------------ *)
LF == 10
CR == 13
SPACE == 32
BANG == 33
DQUOTE == 34
SQUOTE == 39
DOT == 46
DIGIT3 == 51
QMARK == 63
KA == 2325
DANDA == 2404
DDANDA == 2405
LSQUO == 8216
RSQUO == 8217
LDQUO == 8220
RDQUO == 8221
\* quoteChar = null
NULL == 0

(* ------------------------------------------------------------------ *)
(* Bounds of the model                                                  *)
(* ------------------------------------------------------------------ *)
MaxLen == 6

(* ------------------------------------------------------------------ *)
(* Character classes                                                    *)
(* ------------------------------------------------------------------ *)
\* /\s/ and String.prototype.trim(): ECMAScript WhiteSpace + LineTerminator
IsSpace(c) ==
    c \in ({9, 10, 11, 12, 13, 32, 160, 5760, 8232, 8233, 8239, 8287, 12288, 65279}
           \cup (8192..8202))

\* \p{L}, on the Basic Latin and Devanagari blocks
IsLetter(c) ==
    \/ c \in 65..90
    \/ c \in 97..122
    \/ c \in 2308..2361
    \/ c = 2365
    \/ c = 2384
    \/ c \in 2392..2401
    \/ c \in 2417..2431

\* the character class [\p{L}\u0900-\u097F]
IsLetterClass(c) == IsLetter(c) \/ c \in 2304..2431

\* /[\p{L}\u0900-\u097F]/u.test(s)
HasLetterClass(s) == \E k \in 1..Len(s) : IsLetterClass(s[k])

\* isQuote
IsQuote(c) ==
    \/ c = DQUOTE
    \/ c = SQUOTE
    \/ c = LDQUO
    \/ c = RDQUO
    \/ c = LSQUO
    \/ c = RSQUO

\* [danda, double danda, '.', '!', '?'].includes(char)
IsTerminator(c) == c \in {DANDA, DDANDA, DOT, BANG, QMARK}

(* ------------------------------------------------------------------ *)
(* String helpers                                                       *)
(* ------------------------------------------------------------------ *)
RECURSIVE TrimLeft(_)
TrimLeft(s) ==
    IF s = <<>> THEN <<>>
    ELSE IF IsSpace(Head(s)) THEN TrimLeft(Tail(s))
    ELSE s

RECURSIVE TrimRight(_)
TrimRight(s) ==
    IF s = <<>> THEN <<>>
    ELSE IF IsSpace(s[Len(s)]) THEN TrimRight(SubSeq(s, 1, Len(s) - 1))
    ELSE s

\* s.trim()
Trim(s) == TrimRight(TrimLeft(s))

\* s.replace(/\s+/g, ' ')
RECURSIVE CollapseWs(_)
CollapseWs(s) ==
    IF s = <<>> THEN <<>>
    ELSE IF IsSpace(Head(s))
         THEN <<SPACE>> \o CollapseWs(TrimLeft(s))
         ELSE <<Head(s)>> \o CollapseWs(Tail(s))

\* text.replace(/\r\n/g, '\n')
RECURSIVE ReplaceCRLF(_)
ReplaceCRLF(s) ==
    IF s = <<>> THEN <<>>
    ELSE IF Len(s) >= 2 /\ s[1] = CR /\ s[2] = LF
         THEN <<LF>> \o ReplaceCRLF(SubSeq(s, 3, Len(s)))
         ELSE <<Head(s)>> \o ReplaceCRLF(Tail(s))

RECURSIVE SkipLF(_)
SkipLF(s) ==
    IF s # <<>> /\ Head(s) = LF THEN SkipLF(Tail(s)) ELSE s

\* text.replace(/\n+/g, danda + ' ')
RECURSIVE ReplaceLFRuns(_)
ReplaceLFRuns(s) ==
    IF s = <<>> THEN <<>>
    ELSE IF Head(s) = LF
         THEN <<DANDA, SPACE>> \o ReplaceLFRuns(SkipLF(s))
         ELSE <<Head(s)>> \o ReplaceLFRuns(Tail(s))

\* the two replace() calls at the head of splitIntoSentences
NormalizeText(s) == ReplaceLFRuns(ReplaceCRLF(s))

(* ------------------------------------------------------------------ *)
(* The boundary scanner: one iteration of the for loop                  *)
(* ------------------------------------------------------------------ *)
\* the locals before the loop
InitScan ==
    [sentences |-> <<>>, current |-> <<>>, inQuote |-> FALSE,
     quoteChar |-> NULL, threw |-> FALSE]

\* ASCII quotes also close a quotation opened by a left curly quote
CanCloseEitherStyle(q, c) ==
    \/ c = q
    \/ (q = LDQUO /\ c = RDQUO)
    \/ (q = LSQUO /\ c = RSQUO)
    \/ (q = DQUOTE /\ (c = LDQUO \/ c = RDQUO))
    \/ (q = SQUOTE /\ (c = LSQUO \/ c = RSQUO))
    \/ (q = LDQUO /\ c = DQUOTE)
    \/ (q = LSQUO /\ c = SQUOTE)

\* curly quotes do not close a quotation opened by an ASCII quote
CanCloseCurlyOnly(q, c) ==
    \/ c = q
    \/ (q = LDQUO /\ c = RDQUO)
    \/ (q = LSQUO /\ c = RSQUO)

\* the closing condition of the else-if
CanClose(q, c) ==
    \/ c = q
    \/ (q = LDQUO /\ c = RDQUO)
    \/ (q = LSQUO /\ c = RSQUO)
    \/ (q = DQUOTE /\ (c = LDQUO \/ c = RDQUO))
    \/ (q = SQUOTE /\ (c = LSQUO \/ c = RSQUO))

\* the opener is not recorded
OpenQuoteNoChar(st, c) == [st EXCEPT !.inQuote = TRUE]

\* inQuote = true; quoteChar = char
OpenQuote(st, c) == [st EXCEPT !.inQuote = TRUE, !.quoteChar = c]

\* inQuote = false; quoteChar = null
CloseQuote(st) == [st EXCEPT !.inQuote = FALSE, !.quoteChar = NULL]

\* current += char
AppendChar(st, c) == [st EXCEPT !.current = Append(@, c)]

\* the quotation state is not consulted
SplitsAnywhere(c, inQ) == IsTerminator(c)

\* the condition of the terminator branch
SplitsHere(c, inQ) == IsTerminator(c) /\ ~inQ

\* no lookahead: every terminator is a boundary
AtBoundaryAlways(t, k) == TRUE

\* the lookahead; k is the 0-based loop index
AtBoundary(t, k) == k + 1 >= Len(t) \/ IsSpace(t[k + 2])

\* sentences.unshift(s)
PushFront(ss, s) == <<s>> \o ss

\* sentences.push(s)
PushSentence(ss, s) == Append(ss, s)

\* the body of the lookahead's if: push the trimmed fragment when it has a
\* letter-class character, reset the fragment
EmitFragment(st) ==
    LET trimmed == Trim(st.current)
    IN  [st EXCEPT
            !.sentences = IF trimmed # <<>> /\ HasLetterClass(trimmed)
                          THEN PushSentence(@, trimmed)
                          ELSE @,
            !.current = <<>>]

\* one iteration on text[k] (0-based k); threw: quoteChar.charCodeAt(0) was
\* evaluated with quoteChar = null
ScanChar(st, t, k) ==
    LET char == t[k + 1]
    IN  IF IsQuote(char)
        THEN IF ~st.inQuote
             THEN AppendChar(OpenQuote(st, char), char)
             ELSE IF char # st.quoteChar /\ st.quoteChar = NULL
                  THEN [st EXCEPT !.threw = TRUE]
                  ELSE IF CanClose(st.quoteChar, char)
                       THEN AppendChar(CloseQuote(st), char)
                       ELSE AppendChar(st, char)
        ELSE IF SplitsHere(char, st.inQuote)
             THEN IF AtBoundary(t, k)
                  THEN EmitFragment(AppendChar(st, char))
                  ELSE AppendChar(st, char)
             ELSE AppendChar(st, char)

\* a fragment that ends inside a quotation is not flushed
FlushUnquoted(st) ==
    IF ~st.inQuote /\ Trim(st.current) # <<>> /\ HasLetterClass(Trim(st.current))
    THEN Append(st.sentences, Trim(st.current))
    ELSE st.sentences

\* the last fragment is forgotten
FlushNothing(st) == st.sentences

\* the if after the loop: the last fragment
Flush(st) ==
    IF Trim(st.current) # <<>> /\ HasLetterClass(Trim(st.current))
    THEN PushSentence(st.sentences, Trim(st.current))
    ELSE st.sentences

\* the runs of whitespace are kept: s => s.trim()
NormalizeSentenceTrimOnly(s) == Trim(s)

\* s => s.replace(/\s+/g, ' ').trim()
NormalizeSentence(s) == Trim(CollapseWs(s))

\* sentences.map(...).filter(s => s.length > 0)
Finalize(ss) ==
    SelectSeq([k \in 1..Len(ss) |-> NormalizeSentence(ss[k])],
              LAMBDA s : Len(s) > 0)

\* the loop from index k on
RECURSIVE ScanFrom(_, _, _)
ScanFrom(st, t, k) ==
    IF k >= Len(t) \/ st.threw THEN st
    ELSE ScanFrom(ScanChar(st, t, k), t, k + 1)

\* the function as a whole, on an input on which the loop does not throw
splitIntoSentences(T) ==
    LET t == NormalizeText(T)
    IN  Finalize(Flush(ScanFrom(InitScan, t, 0)))

(* ------------------------------------------------------------------ *)
(* Inputs                                                               *)
(* ------------------------------------------------------------------ *)
Texts(A, n) == UNION {[1..m -> A] : m \in 0..n}

\* letters, digits, terminators and blanks
PunctAlphabet == {KA, DIGIT3, SPACE, DOT, DANDA}
\* quotation marks of both styles around a terminator
QuoteAlphabet == {KA, SPACE, DOT, DQUOTE, LDQUO, RDQUO}
\* line-per-sentence layouts
LineAlphabet == {KA, SPACE, LF, CR, DANDA}
\* single quotation marks (and apostrophes) of both styles
SingleQuoteAlphabet == {KA, SPACE, DOT, SQUOTE, LSQUO, RSQUO}

Inputs ==
    Texts(PunctAlphabet, MaxLen) \cup Texts(QuoteAlphabet, MaxLen)
        \cup Texts(LineAlphabet, MaxLen)
        \cup Texts(SingleQuoteAlphabet, MaxLen)

(* ------------------------------------------------------------------ *)
(* The deployment around the segmenter: environment, story files,      *)
(* database, object storage                                             *)
(* ------------------------------------------------------------------ *)
\* the tables of the application
AllTables == {"stories", "sentences", "recordings", "user_progress"}

\* the story files autoSetup imports, in the order of the array
storyFiles == <<"marathi_story1.txt", "marathi_story2.txt", "marathi_story3.txt">>

\* process.env as autoSetup reads it
NoEnv == [DATABASE_URL |-> FALSE, FORCE_REIMPORT |-> "undefined"]

\* a database without any table
DbFresh ==
    [tables |-> {},
     rows |-> [t \in AllTables |-> {}],
     seq |-> [t \in AllTables |-> 0]]

\* autoSetup before it is called
SuIdle ==
    [pc |-> "idle", script |-> "deploy", run |-> 0, tables |-> {},
     storyCount |-> 0, forceReimport |-> FALSE, d |-> 1, f |-> 1,
     lines |-> <<>>, title |-> <<>>, allContent |-> <<>>,
     sentences |-> <<>>, storyId |-> 0, i |-> 0,
     found |-> [t \in AllTables |-> {}]]

\* the storage key of the audio file of recording k
FileName(k) == <<"recordings", k>>

\* the cleanup results object before the loop
NoResults == [total |-> 0, deleted |-> 0, failed |-> 0, errors |-> <<>>]

\* no admin request, no cleanup run under way
AdmIdle ==
    [pc |-> "idle", kind |-> "script", n |-> 0, query |-> "", header |-> "",
     deletedRecordings |-> <<>>, k |-> 0, results |-> NoResults,
     status |-> 0]

(* ------------------------------------------------------------------ *)
(* State                                                                *)
(* ------------------------------------------------------------------ *)
VARIABLES
    raw,        \* the argument splitIntoSentences was called with
    text,       \* the parameter, reassigned by the two replace() calls
    i,          \* the loop index (0-based)
    sentences, current, inQuote, quoteChar,
    result,     \* the returned list
    pc,         \* "start", "scan", "done", "threw"; "off" outside a call
    env,        \* process.env
    files,      \* the story files on disk: name -> content
    db,         \* the database: tables, rows per table, serial counters
    su,         \* autoSetup: the locals, the position in the function, and
                \* (found) the rows the run found when it began
    storage,    \* the object storage: the keys of the audio files in it
    adm         \* an admin request or cleanup run: the request, the
                \* locals and the position in the handler

segVars == <<raw, text, i, sentences, current, inQuote, quoteChar, result, pc>>
setupVars == <<env, files, db, su>>
adminVars == <<storage, adm>>
vars == <<segVars, setupVars, adminVars>>

Locals ==
    [sentences |-> sentences, current |-> current, inQuote |-> inQuote,
     quoteChar |-> quoteChar, threw |-> FALSE]

Init ==
    /\ raw \in Inputs
    /\ text = raw
    /\ i = 0
    /\ sentences = <<>>
    /\ current = <<>>
    /\ inQuote = FALSE
    /\ quoteChar = NULL
    /\ result = <<>>
    /\ pc = "start"
    /\ env = NoEnv
    /\ files = [n \in {} |-> <<>>]
    /\ db = DbFresh
    /\ su = SuIdle
    /\ storage = {}
    /\ adm = AdmIdle

\* lines 13-22: normalise the line breaks, set up the locals
Normalize ==
    /\ pc = "start"
    /\ text' = NormalizeText(text)
    /\ i' = 0
    /\ sentences' = InitScan.sentences
    /\ current' = InitScan.current
    /\ inQuote' = InitScan.inQuote
    /\ quoteChar' = InitScan.quoteChar
    /\ pc' = "scan"
    /\ UNCHANGED <<raw, result>>
    /\ UNCHANGED <<setupVars, adminVars>>

\* lines 24-66: one iteration of the loop
ScanStep ==
    /\ pc = "scan"
    /\ i < Len(text)
    /\ LET st == ScanChar(Locals, text, i)
       IN  /\ sentences' = st.sentences
           /\ current' = st.current
           /\ inQuote' = st.inQuote
           /\ quoteChar' = st.quoteChar
           /\ pc' = IF st.threw THEN "threw" ELSE "scan"
           /\ i' = IF st.threw THEN i ELSE i + 1
    /\ UNCHANGED <<raw, text, result>>
    /\ UNCHANGED <<setupVars, adminVars>>

\* lines 68-74: the loop is over; flush the last fragment and return
Finish ==
    /\ pc = "scan"
    /\ i >= Len(text)
    /\ result' = Finalize(Flush(Locals))
    /\ pc' = "done"
    /\ UNCHANGED <<raw, text, i, sentences, current, inQuote, quoteChar>>
    /\ UNCHANGED <<setupVars, adminVars>>

Next == Normalize \/ ScanStep \/ Finish

Spec == Init /\ [][Next]_vars

(* ------------------------------------------------------------------ *)
(* Vocabulary of the properties                                         *)
(* ------------------------------------------------------------------ *)
\* decimal digits, ASCII and Devanagari
IsDigit(c) == c \in (48..57) \cup (2406..2415)

\* punctuation marks other than quotation marks: ASCII, the dandas, the
\* Devanagari abbreviation sign, General Punctuation
IsPunctuation(c) ==
    /\ ~IsQuote(c)
    /\ c \in (33..47) \cup (58..64) \cup (91..96) \cup (123..126)
             \cup {2404, 2405, 2416} \cup (8208..8231)

\* a sentence made of punctuation, quotation marks, digits and blanks only
OnlyMarks(s) ==
    \A k \in 1..Len(s) :
        IsPunctuation(s[k]) \/ IsQuote(s[k]) \/ IsDigit(s[k]) \/ IsSpace(s[k])

\* the non-whitespace characters of s, in order
NonWs(s) == SelectSeq(s, LAMBDA c : ~IsSpace(c))

\* the concatenation of the sequences of ss
RECURSIVE Flatten(_)
Flatten(ss) == IF ss = <<>> THEN <<>> ELSE Head(ss) \o Flatten(Tail(ss))

\* the least p >= from with SubSeq(t, p, p + Len(s) - 1) = s, or 0
RECURSIVE FindFrom(_, _, _)
FindFrom(s, t, from) ==
    IF from + Len(s) - 1 > Len(t) THEN 0
    ELSE IF SubSeq(t, from, from + Len(s) - 1) = s THEN from
    ELSE FindFrom(s, t, from + 1)

\* the sentences of ss occur in t from position from on, one after the
\* other, without overlap
RECURSIVE InOrder(_, _, _)
InOrder(ss, t, from) ==
    IF ss = <<>> THEN TRUE
    ELSE LET p == FindFrom(Head(ss), t, from)
         IN  p # 0 /\ InOrder(Tail(ss), t, p + Len(Head(ss)))

\* T with each line break (CRLF or LF) replaced by a danda and a space
RECURSIVE DandaForLineBreaks(_)
DandaForLineBreaks(s) ==
    IF s = <<>> THEN <<>>
    ELSE IF Len(s) >= 2 /\ s[1] = CR /\ s[2] = LF
         THEN <<DANDA, SPACE>> \o DandaForLineBreaks(SubSeq(s, 3, Len(s)))
         ELSE IF s[1] = LF
              THEN <<DANDA, SPACE>> \o DandaForLineBreaks(Tail(s))
              ELSE <<Head(s)>> \o DandaForLineBreaks(Tail(s))

\* T has no terminator and no quotation mark: its line breaks are its only
\* sentence separators
OnlyLineBreakSeparators(s) ==
    \A k \in 1..Len(s) : ~IsTerminator(s[k]) /\ ~IsQuote(s[k])

\* the part of s after its last line feed
RECURSIVE LastLine(_)
LastLine(s) ==
    IF \E k \in 1..Len(s) : s[k] = LF THEN LastLine(Tail(s)) ELSE s

\* wrapping characters: quotation marks and brackets
IsWrapping(c) == IsQuote(c) \/ c \in {40, 41, 91, 93, 123, 125}

\* t opens a quotation with its first character and closes it with its
\* last one, with no quotation mark in between
WhollyQuoted(t) ==
    /\ Len(t) >= 2
    /\ IsQuote(t[1])
    /\ IsQuote(t[Len(t)])
    /\ CanClose(t[1], t[Len(t)])
    /\ \A k \in 2..(Len(t) - 1) : ~IsQuote(t[k])

\* the step taken is an iteration of the loop on the character text[i]
IsScanStep == pc = "scan" /\ i < Len(text) /\ pc' = "scan"

(* ------------------------------------------------------------------ *)
(* C1                                                                   *)
(* ------------------------------------------------------------------ *)
\* C1: every returned sentence is non-empty, has a letter-class character
\* (a letter or a code point of U+0900..U+097F) and does not consist of
\* punctuation, quotation marks, digits and whitespace only.
C1_SpeakableSentences ==
    pc = "done" =>
        \A k \in 1..Len(result) :
            /\ result[k] # <<>>
            /\ HasLetterClass(result[k])
            /\ ~OnlyMarks(result[k])

(* ------------------------------------------------------------------ *)
(* C2                                                                   *)
(* ------------------------------------------------------------------ *)
\* C2: the returned sentences are disjoint successive stretches of the
\* normalized text (up to the collapsing of whitespace), in text order:
\* each is found after the end of the one before it.
C2_OrderPreserved ==
    pc = "done" => InOrder(result, CollapseWs(text), 1)

\* two different sentences were returned
C2_Witness ==
    /\ pc = "done"
    /\ Len(result) >= 2
    /\ result[1] # result[2]

(* ------------------------------------------------------------------ *)
(* C3                                                                   *)
(* ------------------------------------------------------------------ *)
\* C3: an iteration that reads a terminator while the scanner is inside a
\* quotation (after an opener, before the closer the scanner pairs with
\* it) pushes no sentence and does not reset the fragment: the terminator
\* is appended to the fragment that holds what came before it, and the
\* scanner stays inside the quotation.  So a text that is one quotation
\* from its first to its last character comes back as one sentence,
\* whatever terminators it holds.
C3_QuoteContainment ==
    /\ [](pc = "done" /\ WhollyQuoted(text) =>
              result = IF HasLetterClass(text)
                       THEN <<NormalizeSentence(text)>>
                       ELSE <<>>)
    /\ [][(IsScanStep /\ inQuote /\ IsTerminator(text[i + 1])) =>
              /\ sentences' = sentences
              /\ current' = Append(current, text[i + 1])
              /\ inQuote']_vars

\* a quotation that holds a terminator followed by a blank was closed and
\* came back as one sentence
C3_Witness ==
    /\ pc = "done"
    /\ raw = <<DQUOTE, KA, DOT, SPACE, KA, DQUOTE>>
    /\ result = <<raw>>

(* ------------------------------------------------------------------ *)
(* C4                                                                   *)
(* ------------------------------------------------------------------ *)
\* C4: an iteration that reads a terminator outside any quotation, with a
\* next character that is not whitespace, pushes nothing, appends the
\* terminator to the fragment and goes on; an iteration pushes a sentence
\* or resets the fragment only on a terminator outside any quotation that
\* is the last character or is followed by whitespace.
C4_LookaheadGuard ==
    [][IsScanStep =>
           LET c == text[i + 1]
               outside == IsTerminator(c) /\ ~inQuote
               last == i + 1 >= Len(text)
           IN  /\ (outside /\ ~last /\ ~IsSpace(text[i + 2])) =>
                      /\ sentences' = sentences
                      /\ current' = Append(current, c)
                      /\ i' = i + 1
               /\ (sentences' # sentences \/ current' = <<>>) =>
                      /\ outside
                      /\ (last \/ IsSpace(text[i + 2]))]_vars

\* the scanner has just kept a terminator that a non-blank follows, as in
\* a decimal number
C4_Witness ==
    /\ pc = "scan"
    /\ i >= 1
    /\ i < Len(text)
    /\ ~inQuote
    /\ IsTerminator(text[i])
    /\ IsDigit(text[i + 1])
    /\ current # <<>>
    /\ current[Len(current)] = text[i]

(* ------------------------------------------------------------------ *)
(* C5                                                                   *)
(* ------------------------------------------------------------------ *)
\* C5: for a text whose only sentence separators are line breaks, the
\* result equals the result on the text with each line break (LF or CRLF)
\* replaced by a danda and a space.
C5_LineBreakEquivalence ==
    (pc = "done" /\ OnlyLineBreakSeparators(raw)) =>
        result = splitIntoSentences(DandaForLineBreaks(raw))

(* ------------------------------------------------------------------ *)
(* C6                                                                   *)
(* ------------------------------------------------------------------ *)
\* C6: a fragment with a letter-class character that is left when the scan
\* ends is returned as the last sentence; in particular a text of several
\* lines, without quotation marks, whose last line has a letter-class
\* character and no terminator returns that line as its last sentence.
C6_EndOfInputFlush ==
    pc = "done" =>
        /\ HasLetterClass(current) =>
               /\ result # <<>>
               /\ result[Len(result)] = NormalizeSentence(current)
        /\ ( /\ \E k \in 1..Len(raw) : raw[k] = LF
             /\ \A k \in 1..Len(raw) : ~IsQuote(raw[k])
             /\ OnlyLineBreakSeparators(LastLine(raw))
             /\ HasLetterClass(LastLine(raw)) ) =>
               /\ result # <<>>
               /\ result[Len(result)] = NormalizeSentence(LastLine(raw))

\* two lines, the last one without a terminator, gave two sentences
C6_Witness ==
    /\ pc = "done"
    /\ raw = <<KA, LF, KA, SPACE, KA>>
    /\ result = <<<<KA, DANDA>>, <<KA, SPACE, KA>>>>

(* ------------------------------------------------------------------ *)
(* C7                                                                   *)
(* ------------------------------------------------------------------ *)
\* C7: a text without any letter-class character (the empty text
\* included) returns the empty list, and no error is raised.
C7_NoLetterNoSentence ==
    /\ pc # "threw"
    /\ (pc = "done" /\ ~HasLetterClass(raw)) => result = <<>>

(* ------------------------------------------------------------------ *)
(* C8                                                                   *)
(* ------------------------------------------------------------------ *)
\* C8: the function is total: no step raises an error, the scanner is
\* inside a quotation exactly when the opening character is recorded
\* (so it is never null where it is read), the loop index stays within
\* the text, and every iteration moves it one character on until the
\* list is returned.
C8_Total ==
    /\ [](/\ pc \in {"start", "scan", "done"}
          /\ inQuote <=> quoteChar # NULL
          /\ i <= Len(text))
    /\ [][pc = "scan" => (i' = i + 1 \/ pc' = "done")]_vars

\* a text with an unmatched opener and a quotation mark of the other
\* style inside it was scanned to the end
C8_Witness ==
    /\ pc = "done"
    /\ raw = <<LDQUO, KA, DOT, SPACE, DQUOTE>>
    /\ inQuote
    /\ quoteChar = LDQUO
    /\ result = <<raw>>

(* ------------------------------------------------------------------ *)
(* C9                                                                   *)
(* ------------------------------------------------------------------ *)
\* C9: a fragment without a letter-class character is merged into a
\* neighbouring sentence, so when at least one sentence is returned every
\* non-whitespace character of the text is in the returned sentences.
C9_NoFragmentLost ==
    (pc = "done" /\ result # <<>>) => NonWs(Flatten(result)) = NonWs(text)

(* ------------------------------------------------------------------ *)
(* C10                                                                  *)
(* ------------------------------------------------------------------ *)
\* C10: wrapping characters are stripped from both ends of every returned
\* sentence: none begins or ends with a quotation mark or a bracket.
C10_WrappingStripped ==
    pc = "done" =>
        \A k \in 1..Len(result) :
            /\ ~IsWrapping(result[k][1])
            /\ ~IsWrapping(result[k][Len(result[k])])

(* ------------------------------------------------------------------ *)
(* C11                                                                  *)
(* ------------------------------------------------------------------ *)
\* s has no whitespace at either end, and its whitespace is single blanks
SingleSpaced(s) ==
    /\ s # <<>> => ~IsSpace(s[1]) /\ ~IsSpace(s[Len(s)])
    /\ \A k \in 1..Len(s) : IsSpace(s[k]) => s[k] = SPACE
    /\ \A k \in 1..(Len(s) - 1) : ~(IsSpace(s[k]) /\ IsSpace(s[k + 1]))

\* C11: every returned sentence has no leading or trailing whitespace and
\* only single blanks inside, and the last step (map/filter) keeps every
\* pushed sentence, its non-whitespace characters and their order.
C11_WhitespaceNormalized ==
    pc = "done" =>
        /\ \A k \in 1..Len(result) : SingleSpaced(result[k])
        /\ Len(result) = Len(Flush(Locals))
        /\ \A k \in 1..Len(result) :
               NonWs(result[k]) = NonWs(Flush(Locals)[k])

\* a pushed sentence held a run of two whitespace characters, one of them
\* a carriage return, and came back with one blank
C11_Witness ==
    /\ pc = "done"
    /\ raw = <<KA, CR, SPACE, KA>>
    /\ sentences = <<>>
    /\ current = raw
    /\ result = <<<<KA, SPACE, KA>>>>

(* ------------------------------------------------------------------ *)
(* C12                                                                  *)
(* ------------------------------------------------------------------ *)
\* the scanner is inside a quotation and no character that is still to be
\* read closes it
Unmatched ==
    /\ inQuote
    /\ \A j \in (i + 1)..Len(text) :
           ~(IsQuote(text[j]) /\ CanClose(quoteChar, text[j]))

\* C12 as claimed: when the text ends inside a quotation, the fragment
\* that holds the opener is returned as the last sentence.
C12_UnmatchedQuoteReturned ==
    (pc = "done" /\ inQuote) =>
        /\ result # <<>>
        /\ result[Len(result)] = NormalizeSentence(current)

\* C12 as amended: from an unmatched opener on, every iteration stays
\* inside the quotation, pushes nothing and appends to the fragment; at
\* the end the fragment runs from its start, at or before the opener, to
\* the end of the text, and the flush returns it as the last sentence when
\* it has a letter-class character and returns nothing for it otherwise.
C12_UnmatchedQuoteHolds ==
    /\ []((pc = "done" /\ inQuote) =>
              /\ current = SubSeq(text, Len(text) - Len(current) + 1, Len(text))
              /\ \E k \in 1..Len(current) : current[k] = quoteChar
              /\ result = Finalize(sentences) \o
                              (IF HasLetterClass(current)
                               THEN <<NormalizeSentence(current)>>
                               ELSE <<>>))
    /\ [][(IsScanStep /\ Unmatched) =>
              /\ inQuote'
              /\ sentences' = sentences
              /\ current' = Append(current, text[i + 1])]_vars

\* a sentence, then an opener that is never closed, with a terminator
\* after it: the rest came back as one sentence
C12_Witness ==
    /\ pc = "done"
    /\ raw = <<KA, DOT, SPACE, DQUOTE, KA, DOT>>
    /\ inQuote
    /\ result = <<<<KA, DOT>>, <<DQUOTE, KA, DOT>>>>

(* ------------------------------------------------------------------ *)
(* C18                                                                  *)
(* ------------------------------------------------------------------ *)
\* the right curly quote of a left curly quote
RightOf(q) == IF q = LDQUO THEN RDQUO ELSE RSQUO

\* the ASCII quote of the same kind (double, single) as a curly quote
AsciiOf(q) == IF q \in {LDQUO, RDQUO} THEN DQUOTE ELSE SQUOTE

\* C18 as claimed: inside a quotation opened by a left curly quote, the
\* ASCII quote of the same kind closes the quotation.
C18_AsciiClosesCurly ==
    [][(IsScanStep /\ inQuote /\ quoteChar \in {LDQUO, LSQUO}
            /\ text[i + 1] = AsciiOf(quoteChar)) => ~inQuote']_vars

\* C18 as amended: inside a quotation opened by a left curly quote, an
\* ASCII double or single quote does not close the quotation: the scanner
\* stays inside with the same opener, and only the same left curly quote
\* or its right curly quote closes it; so a terminator after the ASCII
\* quote, followed by whitespace or not, produces no boundary.
C18_AsciiDoesNotCloseCurly ==
    [][(IsScanStep /\ inQuote /\ quoteChar \in {LDQUO, LSQUO}) =>
           LET c == text[i + 1]
           IN  /\ c \in {DQUOTE, SQUOTE} =>
                      /\ inQuote'
                      /\ quoteChar' = quoteChar
                      /\ current' = Append(current, c)
               /\ inQuote' <=> ~(c = quoteChar \/ c = RightOf(quoteChar))
               /\ sentences' = sentences]_vars

\* a quotation opened by a left curly double quote, an ASCII double quote
\* in it, then a terminator and a blank: one sentence came back
C18_Witness ==
    /\ pc = "done"
    /\ raw = <<LDQUO, KA, DQUOTE, DOT, SPACE, KA>>
    /\ inQuote
    /\ quoteChar = LDQUO
    /\ result = <<raw>>

(* ------------------------------------------------------------------ *)
(* C19                                                                  *)
(* ------------------------------------------------------------------ *)
\* the left curly quote of a right curly quote
LeftOf(c) == IF c = RDQUO THEN LDQUO ELSE LSQUO

\* C19 as claimed: a right curly quote read inside a quotation closes it
\* exactly when the opener is the matching left curly quote.
C19_RightCurlyClosesOnlyLeftCurly ==
    [][(IsScanStep /\ inQuote /\ text[i + 1] \in {RDQUO, RSQUO}) =>
           (~inQuote' <=> quoteChar = LeftOf(text[i + 1]))]_vars

\* C19 as amended: a right curly quote read inside a quotation closes it
\* exactly when the opener is the matching left curly quote, the ASCII
\* quote of the same kind, or the same right curly quote; with any other
\* opener the scanner stays inside the quotation.
C19_RightCurlyClosers ==
    [][(IsScanStep /\ inQuote /\ text[i + 1] \in {RDQUO, RSQUO}) =>
           LET c == text[i + 1]
           IN  /\ ~inQuote' <=> quoteChar \in {LeftOf(c), AsciiOf(c), c}
               /\ inQuote' => quoteChar' = quoteChar
               /\ current' = Append(current, c)]_vars

\* a quotation opened by an ASCII double quote was closed by a right curly
\* double quote: the terminator after it made a boundary
C19_Witness ==
    /\ pc = "done"
    /\ raw = <<DQUOTE, KA, RDQUO, DOT, SPACE, KA>>
    /\ ~inQuote
    /\ result = <<<<DQUOTE, KA, RDQUO, DOT>>, <<KA>>>>

(* ------------------------------------------------------------------ *)
(* autoSetup: scripts/auto-setup-on-deploy.js ("deploy") and its       *)
(* earlier version ("part_003")                                         *)
(* ------------------------------------------------------------------ *)
\* how many times autoSetup is run in a row
MaxRuns == 2

Scripts == {"deploy", "part_003"}

\* str.split(sep)
RECURSIVE Split(_, _)
Split(t, sep) ==
    IF \A k \in 1..Len(t) : t[k] # sep
    THEN <<t>>
    ELSE LET p == CHOOSE k \in 1..Len(t) :
                      t[k] = sep /\ \A j \in 1..(k - 1) : t[j] # sep
         IN  <<SubSeq(t, 1, p - 1)>> \o Split(SubSeq(t, p + 1, Len(t)), sep)

\* arr.join(sep)
RECURSIVE Join(_, _)
Join(ls, sep) ==
    IF ls = <<>> THEN <<>>
    ELSE IF Len(ls) = 1 THEN ls[1]
    ELSE ls[1] \o <<sep>> \o Join(Tail(ls), sep)

\* storyContent.split('\n').map(l => l.trim()).filter(l => l.length > 0)
StoryLines(content) ==
    LET parts == Split(content, LF)
        trimmed == [k \in 1..Len(parts) |-> Trim(parts[k])]
    IN  SelectSeq(trimmed, LAMBDA l : Len(l) > 0)

\* lines.join('\n'): the text handed to splitIntoSentences
AllContent(lines) == Join(lines, LF)

\* the sentences of a story, as each script computes them
StorySentences(script, lines) ==
    IF script = "deploy"
    THEN splitIntoSentences(AllContent(lines))
    ELSE Tail(lines)

\* !tables.includes('stories') || !tables.includes('sentences')
NeedsSchema(tables) == "stories" \notin tables \/ "sentences" \notin tables

\* pool.query(schema): the tables that were missing exist afterwards
SchemaApplied(d) == [d EXCEPT !.tables = AllTables]

\* process.env.FORCE_REIMPORT === 'true' (the earlier version has no such switch)
ForceReimport(script, e) == script = "deploy" /\ e.FORCE_REIMPORT = "true"

\* the import is run whatever the count
CurrentStoryCountZero(force, n) == 0

\* forceReimport ? 0 : storyCount
CurrentStoryCount(force, n) == IF force THEN 0 ELSE n

\* the four DELETE statements the other way round
ClearOrderReversed == <<"stories", "sentences", "user_progress", "recordings">>

\* the four DELETE statements, in the order of the code
ClearOrder == <<"recordings", "user_progress", "sentences", "stories">>

\* DELETE FROM table
DeleteFrom(d, t) == [d EXCEPT !.rows[t] = {}]

\* INSERT INTO stories (title, language, total_sentences) ... RETURNING id
InsertStoryRow(d, title, n) ==
    LET id == d.seq["stories"] + 1
    IN  [d EXCEPT !.seq["stories"] = id,
                  !.rows["stories"] = @ \cup
                      {[id |-> id, title |-> title, language |-> "marathi",
                        total_sentences |-> n]}]

\* INSERT INTO sentences (story_id, order_in_story, text_devanagari)
InsertSentenceRow(d, storyId, order, txt) ==
    LET id == d.seq["sentences"] + 1
    IN  [d EXCEPT !.seq["sentences"] = id,
                  !.rows["sentences"] = @ \cup
                      {[id |-> id, story_id |-> storyId,
                        order_in_story |-> order, text_devanagari |-> txt]}]

\* the for-of loop goes on to the next file, or the import is complete
NextFile(s) ==
    IF s.f < Len(storyFiles)
    THEN [s EXCEPT !.pc = "file", !.f = s.f + 1]
    ELSE [s EXCEPT !.pc = "done"]

\* a title line with a CRLF line end, an empty line, then two sentences
\* on one indented line
StoryTitled == <<KA, KA, CR, LF, LF, SPACE, KA, DOT, SPACE, KA, QMARK>>
\* a file of blank lines
StoryBlank == <<SPACE, LF>>

StoryTexts == {StoryTitled, StoryBlank}

Envs == [DATABASE_URL : BOOLEAN, FORCE_REIMPORT : {"true", "1", "undefined"}]

\* all tables, no row
DbEmpty == [DbFresh EXCEPT !.tables = AllTables]

\* one story with its sentence, a recording of it and a progress row
DbPopulated ==
    [tables |-> AllTables,
     rows |-> [t \in AllTables |->
         CASE t = "stories" ->
                  {[id |-> 1, title |-> <<KA>>, language |-> "marathi",
                    total_sentences |-> 1]}
           [] t = "sentences" ->
                  {[id |-> 1, story_id |-> 1, order_in_story |-> 1,
                    text_devanagari |-> <<KA, DOT>>]}
           [] t = "recordings" ->
                  {[id |-> 1, sentence_id |-> 1, status |-> "pending",
                    filename |-> FileName(1)]}
           [] OTHER -> {[user_id |-> 1, story_id |-> 1]}],
     seq |-> [t \in AllTables |-> 1]]

\* the stories table with a story, the other tables missing
DbStoriesOnly ==
    [tables |-> {"stories"},
     rows |-> [t \in AllTables |->
         IF t = "stories"
         THEN {[id |-> 1, title |-> <<KA>>, language |-> "marathi",
                total_sentences |-> 0]}
         ELSE {}],
     seq |-> [t \in AllTables |-> IF t = "stories" THEN 1 ELSE 0]]

Databases == {DbFresh, DbEmpty, DbPopulated, DbStoriesOnly}

\* the segmenter is not running on its own
SegmenterOff ==
    /\ raw = <<>>
    /\ text = <<>>
    /\ i = 0
    /\ sentences = <<>>
    /\ current = <<>>
    /\ inQuote = FALSE
    /\ quoteChar = NULL
    /\ result = <<>>
    /\ pc = "off"

SetupInit ==
    /\ SegmenterOff
    /\ env = NoEnv
    /\ files \in [{storyFiles[k] : k \in 1..Len(storyFiles)} -> StoryTexts]
    /\ db \in Databases
    /\ su = SuIdle
    /\ storage = {}
    /\ adm = AdmIdle

\* node scripts/auto-setup-on-deploy.js: lines 77-83
StartRun ==
    /\ su.pc \in {"idle", "done", "failed"}
    /\ su.run < MaxRuns
    /\ \E e \in Envs, sc \in Scripts :
           /\ env' = e
           /\ su' = [SuIdle EXCEPT !.run = su.run + 1,
                                   !.script = sc,
                                   !.found = db.rows,
                                   !.pc = IF e.DATABASE_URL THEN "tables"
                                          ELSE "done"]
    /\ UNCHANGED <<files, db>>
    /\ UNCHANGED <<segVars, adminVars>>

\* lines 92-102: which tables exist
QueryTables ==
    /\ su.pc = "tables"
    /\ \E ok \in BOOLEAN :
           su' = IF ~ok THEN [su EXCEPT !.pc = "failed"]
                 ELSE [su EXCEPT !.tables = db.tables,
                                 !.pc = IF NeedsSchema(db.tables) THEN "schema"
                                        ELSE IF su.script = "deploy" THEN "count"
                                        ELSE "done"]
    /\ UNCHANGED <<env, files, db>>
    /\ UNCHANGED <<segVars, adminVars>>

\* lines 103-111: read sql/schema.sql and run it
RunSchema ==
    /\ su.pc = "schema"
    /\ \E ok \in BOOLEAN :
           IF ok
           THEN /\ db' = SchemaApplied(db)
                /\ su' = [su EXCEPT !.pc = "count"]
           ELSE /\ db' = db
                /\ su' = [su EXCEPT !.pc = "failed"]
    /\ UNCHANGED <<env, files>>
    /\ UNCHANGED <<segVars, adminVars>>

\* lines 114-132: count the stories, decide between clearing, importing
\* and leaving the database alone
CountStories ==
    /\ su.pc = "count"
    /\ \E ok \in BOOLEAN :
           su' = IF ~ok THEN [su EXCEPT !.pc = "failed"]
                 ELSE LET n == Cardinality(db.rows["stories"])
                          force == ForceReimport(su.script, env)
                      IN  [su EXCEPT
                              !.storyCount = n,
                              !.forceReimport = force,
                              !.d = 1,
                              !.f = 1,
                              !.pc = IF force /\ n > 0 THEN "clear"
                                     ELSE IF CurrentStoryCount(force, n) = 0
                                     THEN "file"
                                     ELSE "done"]
    /\ UNCHANGED <<env, files, db>>
    /\ UNCHANGED <<segVars, adminVars>>

\* lines 120-127: one of the four DELETE statements
ClearTable ==
    /\ su.pc = "clear"
    /\ \E ok \in BOOLEAN :
           IF ok
           THEN /\ db' = DeleteFrom(db, ClearOrder[su.d])
                /\ su' = IF su.d < Len(ClearOrder)
                         THEN [su EXCEPT !.d = su.d + 1]
                         ELSE [su EXCEPT !.pc = "file"]
           ELSE /\ db' = db
                /\ su' = [su EXCEPT !.pc = "failed"]
    /\ UNCHANGED <<env, files>>
    /\ UNCHANGED <<segVars, adminVars>>

\* lines 141-158: read the next story file and cut it into sentences
ReadStory ==
    /\ su.pc = "file"
    /\ \E ok \in BOOLEAN :
           su' = IF ~ok THEN NextFile(su)
                 ELSE LET ls == StoryLines(files[storyFiles[su.f]])
                      IN  IF Len(ls) = 0 THEN NextFile(su)
                          ELSE [su EXCEPT
                                  !.lines = ls,
                                  !.title = ls[1],
                                  !.allContent = IF su.script = "deploy"
                                                 THEN AllContent(ls)
                                                 ELSE <<>>,
                                  !.sentences = StorySentences(su.script, ls),
                                  !.pc = "story"]
    /\ UNCHANGED <<env, files, db>>
    /\ UNCHANGED <<segVars, adminVars>>

\* lines 160-165: the story row
InsertStory ==
    /\ su.pc = "story"
    /\ \E ok \in BOOLEAN :
           IF ok
           THEN /\ db' = InsertStoryRow(db, su.title, Len(su.sentences))
                /\ su' = [su EXCEPT !.storyId = db.seq["stories"] + 1,
                                    !.i = 0,
                                    !.pc = "sentence"]
           ELSE /\ db' = db
                /\ su' = NextFile(su)
    /\ UNCHANGED <<env, files>>
    /\ UNCHANGED <<segVars, adminVars>>

\* lines 167-173: one iteration of the sentence loop
InsertSentence ==
    /\ su.pc = "sentence"
    /\ su.i < Len(su.sentences)
    /\ \E ok \in BOOLEAN :
           IF ok
           THEN /\ db' = InsertSentenceRow(db, su.storyId, su.i + 1,
                                           su.sentences[su.i + 1])
                /\ su' = [su EXCEPT !.i = su.i + 1]
           ELSE /\ db' = db
                /\ su' = NextFile(su)
    /\ UNCHANGED <<env, files>>
    /\ UNCHANGED <<segVars, adminVars>>

\* lines 175-179: the sentence loop is over
StoryImported ==
    /\ su.pc = "sentence"
    /\ su.i >= Len(su.sentences)
    /\ su' = NextFile(su)
    /\ UNCHANGED <<env, files, db>>
    /\ UNCHANGED <<segVars, adminVars>>

SetupNext ==
    \/ StartRun
    \/ QueryTables
    \/ RunSchema
    \/ CountStories
    \/ ClearTable
    \/ ReadStory
    \/ InsertStory
    \/ InsertSentence
    \/ StoryImported

SetupSpec == SetupInit /\ [][SetupNext]_vars

(* ------------------------------------------------------------------ *)
(* C13                                                                  *)
(* ------------------------------------------------------------------ *)
\* C13: when autoSetup imports a story file, the text it hands to
\* splitIntoSentences is the story body without the title line, and the
\* sentences it is about to store are those of the body alone.
C13_TitleExcluded ==
    su.pc \in {"story", "sentence"} =>
        /\ su.script = "deploy" => su.allContent = Join(Tail(su.lines), LF)
        /\ su.sentences = IF su.script = "deploy"
                          THEN splitIntoSentences(Join(Tail(su.lines), LF))
                          ELSE Tail(su.lines)

(* ------------------------------------------------------------------ *)
(* C17                                                                  *)
(* ------------------------------------------------------------------ *)
\* the sentence rows of a story
SentencesOf(id) == {r \in db.rows["sentences"] : r.story_id = id}

\* the story rows the run has inserted
InsertedStories == db.rows["stories"] \ su.found["stories"]

\* C17: after autoSetup has finished, every story row it inserted has
\* sentence rows numbered exactly 1..n without gap or duplicate, and its
\* total_sentences is n, the number of its sentence rows, on every path.
C17_SentenceRowsComplete ==
    (su.run > 0 /\ su.pc \in {"done", "failed"}) =>
        \A st \in InsertedStories :
            LET rs == SentencesOf(st.id)
                n == Cardinality(rs)
            IN  /\ {r.order_in_story : r \in rs} = 1..n
                /\ st.total_sentences = n

(* ------------------------------------------------------------------ *)
(* C20                                                                  *)
(* ------------------------------------------------------------------ *)
\* some row that was in the database is no longer there
RowRemoved == \E t \in AllTables : ~(db.rows[t] \subseteq db'.rows[t])

\* C20: a run of autoSetup that found at least one story, with
\* FORCE_REIMPORT other than 'true', inserts and deletes no row (so running
\* it again never duplicates the stories); a row is deleted only in a run
\* with FORCE_REIMPORT 'true' that found stories.
C20_SetupOnlyIfNeeded ==
    /\ []((su.run > 0 /\ su.found["stories"] # {}
              /\ env.FORCE_REIMPORT # "true") => db.rows = su.found)
    /\ [][RowRemoved =>
              /\ env.FORCE_REIMPORT = "true"
              /\ su.found["stories"] # {}
              /\ su.storyCount > 0]_vars

\* the first run imported the three stories; the second run, without
\* FORCE_REIMPORT 'true', counted them and left the database as it was
C20_Witness ==
    /\ su.run = 2
    /\ su.pc = "done"
    /\ su.script = "deploy"
    /\ env.DATABASE_URL
    /\ env.FORCE_REIMPORT = "1"
    /\ su.storyCount = 3
    /\ Cardinality(su.found["stories"]) = 3
    /\ db.rows = su.found

(* ------------------------------------------------------------------ *)
(* Admin routes (part_000) and the cleanup script (part_002), with a   *)
(* reviewer working in the Quality Check interface at the same time     *)
(* ------------------------------------------------------------------ *)
\* how many recordings the database holds
NumRecordings == 2
\* how many requests or script runs follow one another
MaxRequests == 2

Statuses == {"pending", "approved", "rejected", "deleted"}

\* the token values a request can carry; "" is a parameter or header
\* that is absent or empty
Tokens == {"", "s3cret", "change-me-in-production"}

\* process.env for the admin routes
AdminEnvs == [ADMIN_TOKEN : {"", "s3cret"}]

\* POST /cleanup-deleted, GET /stats, node scripts/cleanup-deleted.js
Kinds == {"cleanup-deleted", "stats", "script"}

\* the header is read first, the query parameter only without it
RequestTokenHeaderFirst(q, h) == IF h # "" THEN h ELSE q

\* req.query.token || req.headers['x-admin-token']
RequestToken(q, h) == IF q # "" THEN q ELSE h

\* process.env.ADMIN_TOKEN || 'change-me-in-production'
AdminToken(e) ==
    IF e.ADMIN_TOKEN # "" THEN e.ADMIN_TOKEN ELSE "change-me-in-production"

\* the rows of a set in the order of created_at (the order of the ids)
RECURSIVE OrderById(_)
OrderById(S) ==
    IF S = {} THEN <<>>
    ELSE LET r == CHOOSE x \in S : \A y \in S : x.id <= y.id
         IN  <<r>> \o OrderById(S \ {r})

\* SELECT id, filename, ... FROM recordings WHERE status = 'deleted'
\* ORDER BY created_at
SelectDeletedRows(d) ==
    OrderById({[id |-> r.id, filename |-> r.filename] :
                  r \in {x \in d.rows["recordings"] : x.status = "deleted"}})

\* DELETE FROM recordings WHERE id = $1
DeleteRecording(d, id) ==
    [d EXCEPT !.rows["recordings"] = {r \in @ : r.id # id}]

\* UPDATE recordings SET status = ... WHERE id = ...
SetStatus(d, id, st) ==
    [d EXCEPT !.rows["recordings"] =
        {IF r.id = id THEN [r EXCEPT !.status = st] ELSE r : r \in @}]

\* the loop goes to the next recording, or to the summary
NextRecording(a) ==
    IF a.k + 1 < Len(a.deletedRecordings)
    THEN [a EXCEPT !.k = a.k + 1, !.pc = "storage"]
    ELSE [a EXCEPT !.k = a.k + 1, !.pc = "respond"]

\* storage.deleteFile threw: the failure is counted and the recording skipped
StorageFailedCounted(a) ==
    NextRecording([a EXCEPT !.results.failed = @ + 1])

\* storage.deleteFile threw: warn, go on with the database delete
StorageFailed(a) == [a EXCEPT !.pc = "dbdelete"]

\* the database delete went through: results.deleted++
RowDeleted(a) == NextRecording([a EXCEPT !.results.deleted = @ + 1])

\* the database delete threw: the loop goes on without counting it
RowFailedUncounted(a) == NextRecording(a)

\* the database delete threw: results.failed++, results.errors.push (the
\* script only counts)
RowFailed(a) ==
    NextRecording(
        [a EXCEPT !.results.failed = @ + 1,
                  !.results.errors =
                      IF a.kind = "script" THEN @
                      ELSE Append(@, a.deletedRecordings[a.k + 1])])

\* recordings 1..NumRecordings, each with some status
RecordingTables ==
    {[tables |-> AllTables,
      rows |-> [t \in AllTables |->
          IF t = "recordings"
          THEN {[id |-> k, sentence_id |-> 1, status |-> st[k],
                 filename |-> FileName(k)] : k \in 1..NumRecordings}
          ELSE {}],
      seq |-> [t \in AllTables |->
          IF t = "recordings" THEN NumRecordings ELSE 0]] :
        st \in [1..NumRecordings -> Statuses]}

AdminInit ==
    /\ SegmenterOff
    /\ env \in AdminEnvs
    /\ files = [n \in {} |-> <<>>]
    /\ db \in RecordingTables
    /\ su = SuIdle
    /\ storage \in SUBSET {FileName(k) : k \in 1..NumRecordings}
    /\ adm = AdmIdle

\* a request arrives at one of the admin routes, or the script is started
Request ==
    /\ adm.pc \in {"idle", "responded"}
    /\ adm.n < MaxRequests
    /\ \E kind \in Kinds, q \in Tokens, h \in Tokens :
           /\ kind = "script" => (q = "" /\ h = "")
           /\ adm' = [AdmIdle EXCEPT !.n = adm.n + 1,
                                     !.kind = kind,
                                     !.query = q,
                                     !.header = h,
                                     !.pc = IF kind = "script" THEN "select"
                                            ELSE "gate"]
    /\ UNCHANGED <<segVars, setupVars, storage>>

\* requireAdminToken
Gate ==
    /\ adm.pc = "gate"
    /\ adm' = IF RequestToken(adm.query, adm.header) # AdminToken(env)
              THEN [adm EXCEPT !.status = 403, !.pc = "responded"]
              ELSE [adm EXCEPT !.pc = IF adm.kind = "stats" THEN "stats"
                                      ELSE "select"]
    /\ UNCHANGED <<segVars, setupVars, storage>>

\* GET /stats: one query, the answer or status 500
Stats ==
    /\ adm.pc = "stats"
    /\ \E ok \in BOOLEAN :
           adm' = [adm EXCEPT !.status = IF ok THEN 200 ELSE 500,
                              !.pc = "responded"]
    /\ UNCHANGED <<segVars, setupVars, storage>>

\* the SELECT of the recordings marked 'deleted', and the early return
SelectDeleted ==
    /\ adm.pc = "select"
    /\ \E ok \in BOOLEAN :
           adm' = IF ~ok
                  THEN [adm EXCEPT !.status = 500, !.pc = "responded"]
                  ELSE LET rows == SelectDeletedRows(db)
                       IN  IF Len(rows) = 0
                           THEN [adm EXCEPT !.status = 200,
                                            !.pc = "responded"]
                           ELSE [adm EXCEPT
                                    !.deletedRecordings = rows,
                                    !.results = [NoResults EXCEPT
                                                    !.total = Len(rows)],
                                    !.k = 0,
                                    !.pc = "storage"]
    /\ UNCHANGED <<segVars, setupVars, storage>>

\* storage.deleteFile(recording.filename) in its own try
StorageDelete ==
    /\ adm.pc = "storage"
    /\ \E ok \in BOOLEAN :
           IF ok
           THEN /\ storage' = storage \ {adm.deletedRecordings[adm.k + 1].filename}
                /\ adm' = [adm EXCEPT !.pc = "dbdelete"]
           ELSE /\ storage' = storage
                /\ adm' = StorageFailed(adm)
    /\ UNCHANGED <<segVars, setupVars>>

\* DELETE FROM recordings WHERE id = $1, and the catch of the loop body
DbDelete ==
    /\ adm.pc = "dbdelete"
    /\ \E ok \in BOOLEAN :
           IF ok
           THEN /\ db' = DeleteRecording(db, adm.deletedRecordings[adm.k + 1].id)
                /\ adm' = RowDeleted(adm)
           ELSE /\ db' = db
                /\ adm' = RowFailed(adm)
    /\ UNCHANGED <<segVars, env, files, su, storage>>

\* res.json({ success: true, ...results }); the summary of the script
Respond ==
    /\ adm.pc = "respond"
    /\ adm' = [adm EXCEPT !.status = 200, !.pc = "responded"]
    /\ UNCHANGED <<segVars, setupVars, storage>>

\* a reviewer picks another value in the Quality Check dropdown
ReviewerSetsStatus ==
    /\ \E r \in db.rows["recordings"], st \in Statuses :
           /\ st # r.status
           /\ db' = SetStatus(db, r.id, st)
    /\ UNCHANGED <<segVars, env, files, su, adminVars>>

AdminNext ==
    \/ Request
    \/ Gate
    \/ Stats
    \/ SelectDeleted
    \/ StorageDelete
    \/ DbDelete
    \/ Respond
    \/ ReviewerSetsStatus

AdminSpec == AdminInit /\ [][AdminNext]_vars

(* ------------------------------------------------------------------ *)
(* C14                                                                  *)
(* ------------------------------------------------------------------ *)
\* C14: whatever the reviewer does in between, a recording row that a
\* step removes from the database, and a recording whose audio file a step
\* removes from storage, has status 'deleted' at that moment.
C14_OnlyDeletedRemoved ==
    [][\A r \in db.rows["recordings"] :
           /\ (\A x \in db'.rows["recordings"] : x.id # r.id)
                  => r.status = "deleted"
           /\ (r.filename \in storage /\ r.filename \notin storage')
                  => r.status = "deleted"]_vars

(* ------------------------------------------------------------------ *)
(* C15                                                                  *)
(* ------------------------------------------------------------------ *)
\* the handler (not the reviewer) takes a step from position p
HandlerStep(p) == adm.pc = p /\ adm' # adm

\* C15: the storage delete of a recording, failed or not, is followed by
\* the database delete of the same recording with the counters untouched;
\* the database delete either removes the row and counts it as deleted or
\* leaves it and counts it as failed, and in both cases the loop moves to
\* the next recording (or to the summary after the last one).
C15_StorageFailureTolerated ==
    [][/\ HandlerStep("storage") =>
              /\ adm'.pc = "dbdelete"
              /\ adm'.k = adm.k
              /\ adm'.results = adm.results
              /\ db' = db
       /\ HandlerStep("dbdelete") =>
              LET rec == adm.deletedRecordings[adm.k + 1]
                  rest == {r \in db.rows["recordings"] : r.id # rec.id}
              IN  /\ adm'.k = adm.k + 1
                  /\ adm'.pc = IF adm.k + 1 < adm.results.total
                               THEN "storage" ELSE "respond"
                  /\ storage' = storage
                  /\ \/ /\ db'.rows["recordings"] = rest
                        /\ rest # db.rows["recordings"]
                        /\ adm'.results.deleted = adm.results.deleted + 1
                        /\ adm'.results.failed = adm.results.failed
                     \/ /\ db' = db
                        /\ adm'.results.failed = adm.results.failed + 1
                        /\ adm'.results.deleted = adm.results.deleted]_vars

\* the file of recording 1 is still in storage (its storage delete failed)
\* but its row is gone and counted as deleted; the row of recording 2
\* could not be deleted and is counted as failed; the run reached its end
C15_Witness ==
    /\ adm.pc = "responded"
    /\ adm.kind = "cleanup-deleted"
    /\ adm.status = 200
    /\ adm.results.total = 2
    /\ adm.results.deleted = 1
    /\ adm.results.failed = 1
    /\ FileName(1) \in storage
    /\ \A r \in db.rows["recordings"] : r.id = 2

(* ------------------------------------------------------------------ *)
(* C16                                                                  *)
(* ------------------------------------------------------------------ *)
\* the token the server expects
ExpectedToken ==
    IF env.ADMIN_TOKEN = "" THEN "change-me-in-production" ELSE env.ADMIN_TOKEN

\* the positions inside the two route handlers
InHandler == adm.pc \in {"stats", "select", "storage", "dbdelete", "respond"}

\* C16 as claimed: a request with the expected token in the query
\* parameter or in the header is accepted, every other request is answered
\* 403 and touches neither the database nor the storage.
C16_EitherPlaceAccepted ==
    [][HandlerStep("gate") =>
           IF adm.query = ExpectedToken \/ adm.header = ExpectedToken
           THEN adm'.pc \in {"stats", "select"}
           ELSE adm'.status = 403 /\ adm'.pc = "responded"
                    /\ db' = db /\ storage' = storage]_vars

\* the query parameter decides when it is present, the header otherwise
TokenMatches ==
    \/ adm.query # "" /\ adm.query = ExpectedToken
    \/ adm.query = "" /\ adm.header = ExpectedToken

\* C16 as amended: the gate compares the ?token query parameter when it is
\* present (non-empty) and the X-Admin-Token header otherwise with the
\* admin token; a request is handled only if that token is the admin
\* token, and every other request (a correct header behind a wrong query
\* parameter included) is answered 403 with no query run, no storage file
\* deleted and no recording row deleted.
C16_TokenGate ==
    /\ []((adm.kind # "script" /\ InHandler) => TokenMatches)
    /\ [](adm.status = 403 =>
              /\ adm.pc = "responded"
              /\ ~TokenMatches
              /\ adm.deletedRecordings = <<>>
              /\ adm.results = NoResults)
    /\ [][HandlerStep("gate") =>
              /\ db' = db
              /\ storage' = storage
              /\ IF TokenMatches
                 THEN /\ adm'.status = 0
                      /\ adm'.pc = IF adm.kind = "stats" THEN "stats"
                                   ELSE "select"
                 ELSE /\ adm'.status = 403
                      /\ adm'.pc = "responded"]_vars

\* the header carried the admin token, the query parameter another value:
\* the request was refused
C16_Witness ==
    /\ adm.pc = "responded"
    /\ adm.kind = "cleanup-deleted"
    /\ adm.status = 403
    /\ env.ADMIN_TOKEN = "s3cret"
    /\ adm.header = "s3cret"
    /\ adm.query = "change-me-in-production"

(* ------------------------------------------------------------------ *)
(* C22                                                                  *)
(* ------------------------------------------------------------------ *)
\* the ids of the first n recordings of the list the SELECT returned
FoundIds(n) == {adm.deletedRecordings[j].id : j \in 1..n}

\* the ids in results.errors
ErrorIds == {adm.results.errors[j].id : j \in 1..Len(adm.results.errors)}

\* the ids of the recording rows in the database
RowIds == {r.id : r \in db.rows["recordings"]}

\* C22: in a run of POST /cleanup-deleted the recordings the SELECT found
\* are processed one by one, each once, in the order found; all along
\* deleted + failed is the number processed, errors has one entry per
\* failed recording, and deleted is the number of found rows that are
\* gone from the database; the response is sent after the last one, with
\* deleted + failed = total.
C22_CleanupAccounting ==
    /\ []((adm.kind = "cleanup-deleted"
              /\ adm.pc \in {"storage", "dbdelete", "respond"}) =>
              LET res == adm.results
              IN  /\ res.total = Len(adm.deletedRecordings)
                  /\ \A j, l \in 1..res.total :
                         adm.deletedRecordings[j].id = adm.deletedRecordings[l].id
                             => j = l
                  /\ adm.k <= res.total
                  /\ (adm.pc = "respond") <=> (adm.k = res.total)
                  /\ res.deleted + res.failed = adm.k
                  /\ Len(res.errors) = res.failed
                  /\ Cardinality(ErrorIds) = res.failed
                  /\ ErrorIds \subseteq FoundIds(adm.k)
                  /\ FoundIds(adm.k) \ ErrorIds = FoundIds(adm.k) \ RowIds
                  /\ Cardinality(FoundIds(adm.k) \ RowIds) = res.deleted)
    /\ []((adm.kind = "cleanup-deleted" /\ adm.pc = "responded"
              /\ adm.status = 200 /\ adm.deletedRecordings # <<>>) =>
              /\ adm.k = adm.results.total
              /\ adm.results.deleted + adm.results.failed = adm.results.total
              /\ Len(adm.results.errors) = adm.results.failed
              /\ Cardinality(FoundIds(adm.k) \ RowIds) = adm.results.deleted)
    /\ [][(adm.kind = "cleanup-deleted" /\ HandlerStep("respond")) =>
              /\ adm'.status = 200
              /\ adm'.results = adm.results
              /\ adm'.k = adm.k]_vars

\* two recordings were found: the row of the first could not be deleted
\* and is the one entry of errors, the row of the second is gone
C22_Witness ==
    /\ adm.kind = "cleanup-deleted"
    /\ adm.pc = "responded"
    /\ adm.status = 200
    /\ adm.results.total = 2
    /\ adm.results.deleted = 1
    /\ adm.results.failed = 1
    /\ adm.results.errors = <<[id |-> 1, filename |-> FileName(1)]>>
    /\ RowIds = {1}

(* ------------------------------------------------------------------ *)
(* clearStories (part_001), run before or after autoSetup               *)
(* ------------------------------------------------------------------ *)
\* the four DELETE statements of clearStories, in the order of the code
ClearStoriesOrder == <<"recordings", "user_progress", "sentences", "stories">>

\* node scripts/clear-stories.js: the DATABASE_URL check, the pool
StartClear ==
    /\ su.pc \in {"idle", "done", "failed"}
    /\ su.run < MaxRuns
    /\ \E e \in Envs :
           /\ env' = e
           /\ su' = [SuIdle EXCEPT !.run = su.run + 1,
                                   !.script = "clearStories",
                                   !.found = db.rows,
                                   !.pc = IF e.DATABASE_URL THEN "clearing"
                                          ELSE "failed"]
    /\ UNCHANGED <<files, db>>
    /\ UNCHANGED <<segVars, adminVars>>

\* one of the four DELETE statements of clearStories; a statement on a
\* table that does not exist throws like any other failure
ClearStoriesStep ==
    /\ su.pc = "clearing"
    /\ \E ok \in BOOLEAN :
           IF ok /\ ClearStoriesOrder[su.d] \in db.tables
           THEN /\ db' = DeleteFrom(db, ClearStoriesOrder[su.d])
                /\ su' = IF su.d < Len(ClearStoriesOrder)
                         THEN [su EXCEPT !.d = su.d + 1]
                         ELSE [su EXCEPT !.pc = "done"]
           ELSE /\ db' = db
                /\ su' = [su EXCEPT !.pc = "failed"]
    /\ UNCHANGED <<env, files>>
    /\ UNCHANGED <<segVars, adminVars>>

ClearInit == SetupInit

ClearNext ==
    \/ StartRun
    \/ QueryTables
    \/ RunSchema
    \/ CountStories
    \/ ClearTable
    \/ ReadStory
    \/ InsertStory
    \/ InsertSentence
    \/ StoryImported
    \/ StartClear
    \/ ClearStoriesStep

ClearSpec == ClearInit /\ [][ClearNext]_vars

(* ------------------------------------------------------------------ *)
(* C21                                                                  *)
(* ------------------------------------------------------------------ *)
\* every recording refers to a sentence row, every user_progress row and
\* every sentence to a story row
RefIntegrity ==
    /\ \A r \in db.rows["recordings"] :
           \E x \in db.rows["sentences"] : x.id = r.sentence_id
    /\ \A u \in db.rows["user_progress"] :
           \E st \in db.rows["stories"] : st.id = u.story_id
    /\ \A x \in db.rows["sentences"] :
           \E st \in db.rows["stories"] : st.id = x.story_id

\* rows of table t are removed by the step
Emptied(t) == db.rows[t] # {} /\ ~(db.rows[t] \subseteq db'.rows[t])

\* C21: clearStories and the FORCE_REIMPORT branch of autoSetup delete in
\* the order recordings, user_progress, sentences, stories: rows leave a
\* table only when the tables before it in that order are empty, so in
\* every state no remaining recording, user_progress row or sentence
\* refers to a deleted sentence or story; and in a FORCE_REIMPORT run the
\* rows the run found are gone from all four tables before the first new
\* story row is inserted.
C21_ClearingOrder ==
    /\ []RefIntegrity
    /\ [][/\ Emptied("user_progress") => db.rows["recordings"] = {}
          /\ Emptied("sentences") =>
                 db.rows["recordings"] = {} /\ db.rows["user_progress"] = {}
          /\ Emptied("stories") =>
                 /\ db.rows["recordings"] = {}
                 /\ db.rows["user_progress"] = {}
                 /\ db.rows["sentences"] = {}]_vars
    /\ []((su.script = "deploy" /\ su.forceReimport /\ su.storyCount > 0
              /\ su.pc \in {"file", "story", "sentence"}) =>
              \A t \in AllTables : db.rows[t] \cap su.found[t] = {})
    /\ []((su.script = "deploy" /\ env.FORCE_REIMPORT = "true"
              /\ InsertedStories # {}) =>
              \A t \in AllTables : db.rows[t] \cap su.found[t] = {})

\* a FORCE_REIMPORT run found a story with a sentence, a recording and a
\* progress row, deleted them all, and is now inserting the sentences of
\* the first new story
C21_Witness ==
    /\ su.script = "deploy"
    /\ su.forceReimport
    /\ su.pc = "sentence"
    /\ \A t \in AllTables : su.found[t] # {}
    /\ \A t \in AllTables : db.rows[t] \cap su.found[t] = {}
    /\ Cardinality(InsertedStories) = 1
    /\ db.rows["sentences"] # {}

====
